---- MODULE Spec2Model ----
(* ChefSocial recipe library (frontend/src/app/page.tsx, HomeContent):       *)
(* the local cookbook in localStorage, the session, the migration run by    *)
(* handleGoogleLogin and the toggle-save of saveRecipe, as a state machine. *)
(* Every await of an async handler is a step boundary: a handler runs from  *)
(* one await to the next as one atomic action.                              *)
EXTENDS Integers, Sequences, FiniteSets, TLC

VARIABLES
    mounted,        \* the component is mounted (useEffect has run)
    user,           \* useState<User | null>
    savedRecipes,   \* useState<Recipe[]>
    error,          \* useState<string | null>
    userBlob,       \* localStorage['chefSocial_user']
    blob,           \* localStorage['chefSocial_cookbook']
    login,          \* the invocations of handleGoogleLogin, each with its position
    pendingSaves,   \* create calls of saveRecipe in flight, each with its closure
    pendingFetch,   \* GET /recipes calls of fetchCloudRecipes in flight
    remote,         \* the remote collection behind /recipes
    searchQuery,    \* useState('') of the search input
    selectedCategory, \* useState("All") of the filter chips
    otherTab,       \* a second tab on the same localStorage: its in-memory state
    last,           \* history: the handler that ran in the last step, with its pre-state
    last2           \* history: last as it was before a second saveRecipe in a row

vars == <<mounted, user, savedRecipes, error, userBlob, blob,
          login, pendingSaves, pendingFetch, remote,
          searchQuery, selectedCategory, otherTab, last, last2>>

-----------------------------------------------------------------------------
(* Bounds *)

MaxRemote == 2          \* recipes the remote collection can hold
MaxPending == 1         \* create calls of saveRecipe in flight at once
MaxFetch == 2           \* login runs and GET /recipes calls in flight at once
MaxLen == 2             \* length of a collection the local-mode specification starts from
MaxShelf == 2           \* length of a collection the cookbook view is applied to

-----------------------------------------------------------------------------
(* Values *)

Null == [type |-> "null"]

NoError == "none"
LoginFailed == "Login failed"
LoginError == "Login error"

\* The session the auth collaborator returns.
UserData == [id |-> "u1", token |-> "t1"]

\* What the extraction collaborator can return.
Extracted ==
    { [title |-> "A", description |-> "a"],
      [title |-> "B", description |-> "b"] }

Runs == {1, 2}

\* Text the view works on is a sequence of characters.
NoQuery == <<>>
All == <<"A", "l", "l">>

\* A tab that is not open.
ClosedTab == [mounted |-> FALSE, savedRecipes |-> <<>>]

Ok == "ok"
NotOk == "notok"
Throw == "throw"
Outcomes == {Ok, NotOk, Throw}

-----------------------------------------------------------------------------
(* localStorage holds strings: a key is absent, or holds text that parses   *)
(* as JSON, or holds text that does not.                                    *)

Absent == [kind |-> "absent"]
Garbage == [kind |-> "garbage"]
Stringify(v) == [kind |-> "json", val |-> v]
Parses(b) == b.kind = "json"
Parse(b) == b.val

-----------------------------------------------------------------------------
(* Helpers of saveRecipe and handleDelete *)

isAlreadySaved(S, r) == \E i \in 1..Len(S) : S[i].title = r.title

\* A filter with its test the wrong way round: it keeps the recipes titled t.
FilterTitleInverted(S, t) ==
    LET kept[i \in 0..Len(S)] ==
            IF i = 0 THEN <<>>
            ELSE IF S[i].title = t THEN Append(kept[i - 1], S[i]) ELSE kept[i - 1]
    IN  kept[Len(S)]

\* savedRecipes.filter(r => r.title !== t)
FilterTitle(S, t) ==
    LET kept[i \in 0..Len(S)] ==
            IF i = 0 THEN <<>>
            ELSE IF S[i].title # t THEN Append(kept[i - 1], S[i]) ELSE kept[i - 1]
    IN  kept[Len(S)]

\* A save that adds the recipe at the end of the collection.
PrependAtEnd(r, S) == Append(S, r)

\* [r, ...S]
Prepend(r, S) == <<r>> \o S

-----------------------------------------------------------------------------
(* The remote collection endpoint *)

\* The id the server gives the n-th recipe it stores.
ServerId(n) == <<"id1", "id2", "id3", "id4", "id5">>[n]

\* A recipe as the server stores it: with the id the server assigned.
ServerCopy(r, n) == [k \in DOMAIN r \cup {"id"} |->
                        IF k = "id" THEN ServerId(n) ELSE r[k]]

\* POST /recipes: the copy created in the collection R.
ServerCreate(r, R) == ServerCopy(r, Len(R) + 1)

\* The collection after a create: newest first.
ServerAdd(r, R) == <<ServerCreate(r, R)>> \o R

-----------------------------------------------------------------------------
(* History *)

NoOp == [op |-> "other"]
\* The handler of the step, its argument and the collection it started from.
Snapshot(op, r) == [op |-> op, r |-> r, saved |-> savedRecipes]

IdleRun == [pc |-> "idle", recipes |-> <<>>, idx |-> 0]

\* Local collections a visit can have left in localStorage.
StoredCollections ==
    {<<>>} \cup {<<r>> : r \in Extracted}

\* The page before its first mount, on a device whose localStorage is empty.
Init ==
    /\ mounted = FALSE
    /\ user = Null
    /\ savedRecipes = <<>>
    /\ error = NoError
    /\ userBlob = Absent
    /\ blob = Absent
    /\ login = [i \in Runs |-> IdleRun]
    /\ pendingSaves = <<>>
    /\ pendingFetch = 0
    /\ remote = <<>>
    /\ searchQuery = NoQuery
    /\ selectedCategory = All
    /\ otherTab = ClosedTab
    /\ last = NoOp
    /\ last2 = NoOp

-----------------------------------------------------------------------------
(* fetchCloudRecipes: the GET is issued by the caller's step; its response  *)
(* is the step FetchRespond.                                                *)

Other == /\ last' = NoOp
         /\ last2' = NoOp

\* React.useEffect(() => {...}, []): load the session, or else the cookbook.
Mount ==
    /\ ~mounted
    /\ mounted' = TRUE
    /\ IF userBlob # Absent
       THEN IF Parses(userBlob)
            THEN /\ user' = Parse(userBlob)
                 /\ pendingFetch' = pendingFetch + 1
                 /\ UNCHANGED savedRecipes
            ELSE UNCHANGED <<user, pendingFetch, savedRecipes>>
       ELSE /\ IF blob # Absent /\ Parses(blob)
               THEN savedRecipes' = Parse(blob)
               ELSE UNCHANGED savedRecipes
            /\ UNCHANGED <<user, pendingFetch>>
    /\ UNCHANGED <<error, userBlob, blob, login, pendingSaves, remote>>
    /\ UNCHANGED <<searchQuery, selectedCategory, otherTab>>
    /\ Other

\* The page is torn down (reload): the in-memory state is that of useState's
\* initial values again, calls in flight are abandoned, localStorage stays.
Unmount ==
    /\ mounted
    /\ mounted' = FALSE
    /\ user' = Null
    /\ savedRecipes' = <<>>
    /\ error' = NoError
    /\ login' = [i \in Runs |-> IdleRun]
    /\ pendingSaves' = <<>>
    /\ pendingFetch' = 0
    /\ searchQuery' = NoQuery
    /\ selectedCategory' = All
    /\ UNCHANGED <<userBlob, blob, remote, otherTab>>
    /\ Other

\* A listing that empties the collection when the call fails.
FetchRespondClearing(outcome) ==
    /\ pendingFetch > 0
    /\ pendingFetch' = pendingFetch - 1
    /\ savedRecipes' = IF outcome = Ok THEN remote ELSE <<>>
    /\ UNCHANGED <<mounted, user, error, userBlob, blob, login, pendingSaves, remote>>
    /\ UNCHANGED <<searchQuery, selectedCategory, otherTab>>
    /\ last' = [op |-> "FetchRespond", outcome |-> outcome]
    /\ last2' = NoOp

\* The GET /recipes of fetchCloudRecipes has answered, or has thrown.
FetchRespond(outcome) ==
    /\ pendingFetch > 0
    /\ pendingFetch' = pendingFetch - 1
    /\ IF outcome = Ok
       THEN savedRecipes' = remote
       ELSE UNCHANGED savedRecipes
    /\ UNCHANGED <<mounted, user, error, userBlob, blob, login, pendingSaves, remote>>
    /\ UNCHANGED <<searchQuery, selectedCategory, otherTab>>
    /\ last' = [op |-> "FetchRespond", outcome |-> outcome]
    /\ last2' = NoOp

-----------------------------------------------------------------------------
(* handleGoogleLogin *)

\* Up to the first await: the POST /auth/google is issued.
LoginStart(i) ==
    /\ mounted
    /\ user = Null                       \* <GoogleLogin> is rendered
    /\ login[i].pc = "idle"
    /\ pendingFetch + Cardinality({j \in Runs : login[j].pc # "idle"}) < MaxFetch
    /\ error' = NoError
    /\ login' = [login EXCEPT ![i].pc = "auth"]
    /\ UNCHANGED <<mounted, user, savedRecipes, userBlob, blob, pendingSaves,
                   pendingFetch, remote>>
    /\ UNCHANGED <<searchQuery, selectedCategory, otherTab>>
    /\ Other

\* The run ends: the code after the migration loop, and finally.
MigrationDone(i) ==
    /\ blob' = Absent
    /\ pendingFetch' = pendingFetch + 1
    /\ login' = [login EXCEPT ![i] = IdleRun]
    /\ UNCHANGED error

\* A catch that also clears the local collection.
LoginCatchClears(i) ==
    /\ error' = LoginError
    /\ login' = [login EXCEPT ![i] = IdleRun]
    /\ blob' = Absent
    /\ UNCHANGED pendingFetch

\* The catch of handleGoogleLogin.
LoginCatch(i) ==
    /\ error' = LoginError
    /\ login' = [login EXCEPT ![i] = IdleRun]
    /\ UNCHANGED <<blob, pendingFetch>>

\* The auth call has answered; on success the session is installed and the
\* migration runs up to its first create call.
AuthRespond(i, outcome) ==
    /\ login[i].pc = "auth"
    /\ IF outcome = Ok
       THEN /\ user' = UserData
            /\ userBlob' = Stringify(UserData)
           
            /\ IF blob = Absent
               THEN /\ pendingFetch' = pendingFetch + 1
                    /\ login' = [login EXCEPT ![i] = IdleRun]
                    /\ UNCHANGED <<blob, error>>
               ELSE IF ~Parses(blob)
               THEN LoginCatch(i)
               ELSE IF Parse(blob) = <<>>
               THEN MigrationDone(i)
               ELSE /\ login' = [login EXCEPT
                                   ![i] = [pc |-> "posting", recipes |-> Parse(blob),
                                           idx |-> 1]]
                    /\ UNCHANGED <<blob, error, pendingFetch>>
       ELSE
            /\ error' = IF outcome = NotOk THEN LoginFailed ELSE LoginError
            /\ login' = [login EXCEPT ![i] = IdleRun]
            /\ UNCHANGED <<user, userBlob, blob, pendingFetch>>
    /\ UNCHANGED <<mounted, savedRecipes, pendingSaves, remote>>
    /\ UNCHANGED <<searchQuery, selectedCategory, otherTab>>
    /\ Other

\* A create call of the migration loop has answered (its result is not read),
\* or has thrown.
MigratePostRespond(i, outcome) ==
    /\ login[i].pc = "posting"
    /\ outcome = Ok => Len(remote) < MaxRemote
    /\ IF outcome = Ok
       THEN remote' = ServerAdd(login[i].recipes[login[i].idx], remote)
           
       ELSE UNCHANGED remote
    /\ IF outcome = Throw
       THEN LoginCatch(i)
       ELSE IF login[i].idx < Len(login[i].recipes)
       THEN /\ login' = [login EXCEPT ![i].idx = @ + 1]
            /\ UNCHANGED <<blob, error, pendingFetch>>
       ELSE MigrationDone(i)
    /\ UNCHANGED <<mounted, user, savedRecipes, userBlob, pendingSaves>>
    /\ UNCHANGED <<searchQuery, selectedCategory, otherTab>>
    /\ Other

handleLogout ==
    /\ mounted
    /\ user # Null                       \* the avatar is rendered
    /\ user' = Null
    /\ userBlob' = Absent
    /\ savedRecipes' = <<>>
    /\ UNCHANGED <<mounted, error, blob, login, pendingSaves, pendingFetch, remote>>
    /\ UNCHANGED <<searchQuery, selectedCategory, otherTab>>
    /\ Other

-----------------------------------------------------------------------------
(* saveRecipe and handleDelete *)

Range(S) == {S[i] : i \in 1..Len(S)}

\* The recipe of the detail card: an extracted recipe or a card of the cookbook.
Shown == Extracted \cup Range(savedRecipes)

\* A saveRecipe whose remove branch also deletes the recipe from the remote
\* collection when a session is present.
saveRecipeDeletesRemotely(recipeToSave) ==
    /\ mounted
    /\ IF isAlreadySaved(savedRecipes, recipeToSave)
       THEN /\ savedRecipes' = FilterTitle(savedRecipes, recipeToSave.title)
            /\ IF user = Null
               THEN /\ blob' = Stringify(FilterTitle(savedRecipes, recipeToSave.title))
                    /\ UNCHANGED remote
               ELSE /\ remote' = FilterTitle(remote, recipeToSave.title)
                    /\ UNCHANGED blob
            /\ UNCHANGED pendingSaves
       ELSE IF user # Null
       THEN /\ Len(pendingSaves) < MaxPending
            /\ pendingSaves' = Append(pendingSaves,
                                      [r |-> recipeToSave, closure |-> savedRecipes])
            /\ UNCHANGED <<savedRecipes, blob, remote>>
       ELSE /\ savedRecipes' = Prepend(recipeToSave, savedRecipes)
            /\ blob' = Stringify(Prepend(recipeToSave, savedRecipes))
            /\ UNCHANGED <<pendingSaves, remote>>
    /\ UNCHANGED <<mounted, user, error, userBlob, login, pendingFetch>>
    /\ UNCHANGED <<searchQuery, selectedCategory, otherTab>>
    /\ last' = Snapshot("saveRecipe", recipeToSave)
    /\ last2' = IF \/ last.op \in {"saveRecipe", "SaveRespond"} /\ last.r = recipeToSave
                  \/ last.op = "saveRecipeOther"
               THEN last ELSE NoOp

\* saveRecipe(recipeToSave), up to its await (remote add) or to its end.
saveRecipe(recipeToSave) ==
    /\ mounted
    /\ IF isAlreadySaved(savedRecipes, recipeToSave)
       THEN /\ savedRecipes' = FilterTitle(savedRecipes, recipeToSave.title)
            /\ IF user = Null
               THEN blob' = Stringify(FilterTitle(savedRecipes, recipeToSave.title))
               ELSE UNCHANGED blob
            /\ UNCHANGED pendingSaves
       ELSE IF user # Null
       THEN /\ Len(pendingSaves) < MaxPending
            /\ pendingSaves' = Append(pendingSaves,
                                      [r |-> recipeToSave, closure |-> savedRecipes])
            /\ UNCHANGED <<savedRecipes, blob>>
       ELSE /\ savedRecipes' = Prepend(recipeToSave, savedRecipes)
            /\ blob' = Stringify(Prepend(recipeToSave, savedRecipes))
            /\ UNCHANGED pendingSaves
    /\ UNCHANGED <<mounted, user, error, userBlob, login, pendingFetch, remote>>
    /\ UNCHANGED <<searchQuery, selectedCategory, otherTab>>
    /\ last' = Snapshot("saveRecipe", recipeToSave)
    /\ last2' = IF \/ last.op \in {"saveRecipe", "SaveRespond"} /\ last.r = recipeToSave
                  \/ last.op = "saveRecipeOther"
               THEN last ELSE NoOp

\* A save that prepends the recipe it was given instead of the one the server
\* returned.
SaveRespondPrependsInput(k, outcome) ==
    /\ k \in 1..Len(pendingSaves)
    /\ outcome = Ok => Len(remote) < MaxRemote
    /\ pendingSaves' = [j \in 1..(Len(pendingSaves) - 1) |->
                           IF j < k THEN pendingSaves[j] ELSE pendingSaves[j + 1]]
    /\ IF outcome = Ok
       THEN /\ remote' = ServerAdd(pendingSaves[k].r, remote)
            /\ savedRecipes' = Prepend(pendingSaves[k].r, pendingSaves[k].closure)
       ELSE UNCHANGED <<remote, savedRecipes>>
    /\ UNCHANGED <<mounted, user, error, userBlob, blob, login, pendingFetch>>
    /\ UNCHANGED <<searchQuery, selectedCategory, otherTab>>
    /\ last' = [op |-> "SaveRespond", r |-> pendingSaves[k].r, outcome |-> outcome,
                saved |-> pendingSaves[k].closure]
    /\ last2' = NoOp

\* A save that shows the user an error when the create call fails.
SaveRespondReportsFailure(k, outcome) ==
    /\ k \in 1..Len(pendingSaves)
    /\ outcome = Ok => Len(remote) < MaxRemote
    /\ pendingSaves' = [j \in 1..(Len(pendingSaves) - 1) |->
                           IF j < k THEN pendingSaves[j] ELSE pendingSaves[j + 1]]
    /\ IF outcome = Ok
       THEN /\ remote' = ServerAdd(pendingSaves[k].r, remote)
            /\ savedRecipes' = Prepend(ServerCreate(pendingSaves[k].r, remote),
                                       pendingSaves[k].closure)
            /\ UNCHANGED error
       ELSE /\ error' = "Failed to save to cloud"
            /\ UNCHANGED <<remote, savedRecipes>>
    /\ UNCHANGED <<mounted, user, userBlob, blob, login, pendingFetch>>
    /\ UNCHANGED <<searchQuery, selectedCategory, otherTab>>
    /\ last' = [op |-> "SaveRespond", r |-> pendingSaves[k].r, outcome |-> outcome,
                saved |-> pendingSaves[k].closure]
    /\ last2' = NoOp

\* The create call of a saveRecipe has answered.
SaveRespond(k, outcome) ==
    /\ k \in 1..Len(pendingSaves)
    /\ outcome = Ok => Len(remote) < MaxRemote
    /\ pendingSaves' = [j \in 1..(Len(pendingSaves) - 1) |->
                           IF j < k THEN pendingSaves[j] ELSE pendingSaves[j + 1]]
    /\ IF outcome = Ok
       THEN /\ remote' = ServerAdd(pendingSaves[k].r, remote)
            /\ savedRecipes' = Prepend(ServerCreate(pendingSaves[k].r, remote),
                                       pendingSaves[k].closure)
           
       ELSE
            /\ UNCHANGED <<remote, savedRecipes>>
    /\ UNCHANGED <<mounted, user, error, userBlob, blob, login, pendingFetch>>
    /\ UNCHANGED <<searchQuery, selectedCategory, otherTab>>
    /\ last' = [op |-> "SaveRespond", r |-> pendingSaves[k].r, outcome |-> outcome,
                saved |-> pendingSaves[k].closure]
    /\ last2' = NoOp

\* handleDelete with `shown` in the recipe state (a null recipe returns at once).
handleDelete(shown) ==
    /\ mounted
    /\ savedRecipes' = FilterTitle(savedRecipes, shown.title)
    /\ blob' = Stringify(FilterTitle(savedRecipes, shown.title))
    /\ UNCHANGED <<mounted, user, error, userBlob, login, pendingSaves, pendingFetch,
                   remote>>
    /\ UNCHANGED <<searchQuery, selectedCategory, otherTab>>
    /\ last' = Snapshot("handleDelete", shown)
    /\ last2' = NoOp

-----------------------------------------------------------------------------
(* The cookbook view: filteredRecipes, the search over the collection and    *)
(* the category chips. Text is a sequence of characters, so that lowercasing *)
(* and substring search are computed.                                        *)

UpperCase ==
    <<"A", "B", "C", "D", "E", "F", "G", "H", "I", "J", "K", "L", "M",
      "N", "O", "P", "Q", "R", "S", "T", "U", "V", "W", "X", "Y", "Z">>

LowerCase ==
    <<"a", "b", "c", "d", "e", "f", "g", "h", "i", "j", "k", "l", "m",
      "n", "o", "p", "q", "r", "s", "t", "u", "v", "w", "x", "y", "z">>

\* The lowercase letter of each uppercase letter.
LowerOf ==
    [c \in Range(UpperCase) |-> LowerCase[CHOOSE k \in DOMAIN UpperCase : UpperCase[k] = c]]

\* String.prototype.toLowerCase
toLowerCase(s) ==
    [i \in 1..Len(s) |-> IF s[i] \in DOMAIN LowerOf THEN LowerOf[s[i]] ELSE s[i]]

\* String.prototype.includes
includes(text, term) ==
    \E i \in 0..(Len(text) - Len(term)) : SubSeq(text, i + 1, i + Len(term)) = term

\* Array.prototype.join(' ')
join(parts) ==
    LET joined[i \in 0..Len(parts)] ==
            IF i = 0 THEN <<>>
            ELSE IF i = 1 THEN parts[1]
            ELSE joined[i - 1] \o <<" ">> \o parts[i]
    IN  joined[Len(parts)]

categoryToTags(cat) == <<cat>>

MEAL_TYPES ==
    <<
      <<"B", "r", "e", "a", "k", "f", "a", "s", "t">>, <<"B", "r", "u", "n", "c", "h">>,
      <<"L", "u", "n", "c", "h">>, <<"D", "i", "n", "n", "e", "r">>, <<"S", "n", "a", "c", "k">>,
      <<"D", "e", "s", "s", "e", "r", "t">>, <<"A", "p", "p", "e", "t", "i", "z", "e", "r">>,
      <<"D", "r", "i", "n", "k">>
    >>

DISH_TYPES ==
    <<
      <<"A", "i", "r", "f", "r", "y", "e", "r">>, <<"B", "B", "Q">>,
      <<"S", "l", "o", "w", " ", "C", "o", "o", "k", "e", "r">>, <<"P", "a", "s", "t", "a">>,
      <<"P", "i", "z", "z", "a">>, <<"B", "u", "r", "g", "e", "r">>,
      <<"S", "a", "n", "d", "w", "i", "c", "h">>, <<"W", "r", "a", "p">>,
      <<"T", "a", "c", "o", "s">>, <<"S", "a", "l", "a", "d">>, <<"B", "o", "w", "l">>,
      <<"S", "o", "u", "p">>, <<"S", "t", "e", "w">>, <<"C", "u", "r", "r", "y">>,
      <<"R", "i", "c", "e">>, <<"M", "e", "a", "t">>, <<"F", "i", "s", "h">>,
      <<"C", "h", "i", "c", "k", "e", "n">>, <<"V", "e", "g", "e", "t", "a", "r", "i", "a", "n">>,
      <<"V", "e", "g", "a", "n">>, <<"L", "o", "w", "-", "C", "a", "r", "b">>,
      <<"H", "i", "g", "h", "-", "P", "r", "o", "t", "e", "i", "n">>,
      <<"S", "m", "o", "o", "t", "h", "i", "e">>, <<"C", "o", "c", "k", "t", "a", "i", "l">>,
      <<"S", "a", "u", "c", "e">>, <<"S", "i", "d", "e">>
    >>

\* The entries of the object literal, each key with its list.
TRANSLATIONS ==
    <<
      [key |-> <<"c", "h", "i", "c", "k", "e", "n">>,
       terms |-> <<
          <<"k", "i", "p">>, <<"g", "e", "v", "o", "g", "e", "l", "t", "e">>,
          <<"p", "o", "u", "l", "t", "r", "y">>
       >>],
      [key |-> <<"b", "e", "e", "f">>,
       terms |-> <<
          <<"r", "u", "n", "d">>, <<"b", "i", "e", "f", "s", "t", "u", "k">>,
          <<"s", "t", "e", "a", "k">>, <<"m", "e", "a", "t">>
       >>],
      [key |-> <<"p", "o", "r", "k">>,
       terms |-> <<
          <<"v", "a", "r", "k", "e", "n">>, <<"h", "a", "m">>, <<"s", "p", "e", "k">>,
          <<"b", "a", "c", "o", "n">>, <<"p", "o", "r", "k", " ", "b", "e", "l", "l", "y">>
       >>],
      [key |-> <<"f", "i", "s", "h">>,
       terms |-> <<
          <<"v", "i", "s">>, <<"z", "a", "l", "m">>, <<"t", "o", "n", "i", "j", "n">>,
          <<"s", "a", "l", "m", "o", "n">>, <<"t", "u", "n", "a">>, <<"c", "o", "d">>,
          <<"k", "a", "b", "e", "l", "j", "a", "u", "w">>
       >>],
      [key |-> <<"s", "h", "r", "i", "m", "p">>,
       terms |-> <<
          <<"g", "a", "r", "n", "a", "a", "l">>, <<"g", "a", "r", "n", "a", "l", "e", "n">>,
          <<"p", "r", "a", "w", "n", "s">>
       >>],
      [key |-> <<"p", "a", "s", "t", "a">>,
       terms |-> <<
          <<"s", "p", "a", "g", "h", "e", "t", "t", "i">>,
          <<"m", "a", "c", "a", "r", "o", "n", "i">>, <<"p", "e", "n", "n", "e">>,
          <<"l", "a", "s", "a", "g", "n", "a">>, <<"n", "o", "e", "d", "e", "l", "s">>,
          <<"n", "o", "o", "d", "l", "e", "s">>
       >>],
      [key |-> <<"r", "i", "c", "e">>,
       terms |-> <<
          <<"r", "i", "j", "s", "t">>, <<"r", "i", "s", "o", "t", "t", "o">>
       >>],
      [key |-> <<"v", "e", "g", "e", "t", "a", "b", "l", "e">>,
       terms |-> <<
          <<"g", "r", "o", "e", "n", "t", "e">>, <<"v", "e", "g", "a">>,
          <<"v", "e", "g", "e", "t", "a", "r", "i", "a", "n">>
       >>],
      [key |-> <<"c", "h", "e", "e", "s", "e">>,
       terms |-> <<
          <<"k", "a", "a", "s">>, <<"p", "a", "r", "m", "e", "z", "a", "a", "n">>,
          <<"c", "h", "e", "d", "d", "a", "r">>,
          <<"m", "o", "z", "z", "a", "r", "e", "l", "l", "a">>
       >>],
      [key |-> <<"e", "g", "g">>,
       terms |-> <<
          <<"e", "i">>, <<"e", "i", "e", "r", "e", "n">>, <<"e", "g", "g", "s">>
       >>],
      [key |-> <<"b", "r", "e", "a", "d">>,
       terms |-> <<
          <<"b", "r", "o", "o", "d">>, <<"t", "o", "a", "s", "t">>,
          <<"s", "a", "n", "d", "w", "i", "c", "h">>
       >>],
      [key |-> <<"k", "i", "p">>,
       terms |-> <<
          <<"c", "h", "i", "c", "k", "e", "n">>, <<"p", "o", "u", "l", "t", "r", "y">>
       >>],
      [key |-> <<"r", "u", "n", "d">>,
       terms |-> <<
          <<"b", "e", "e", "f">>, <<"s", "t", "e", "a", "k">>
       >>],
      [key |-> <<"v", "a", "r", "k", "e", "n">>,
       terms |-> <<
          <<"p", "o", "r", "k">>, <<"h", "a", "m">>, <<"b", "a", "c", "o", "n">>
       >>],
      [key |-> <<"v", "i", "s">>,
       terms |-> <<
          <<"f", "i", "s", "h">>, <<"s", "a", "l", "m", "o", "n">>, <<"t", "u", "n", "a">>
       >>],
      [key |-> <<"g", "a", "r", "n", "a", "a", "l">>,
       terms |-> <<
          <<"s", "h", "r", "i", "m", "p">>, <<"p", "r", "a", "w", "n", "s">>
       >>],
      [key |-> <<"g", "r", "o", "e", "n", "t", "e">>,
       terms |-> <<
          <<"v", "e", "g", "e", "t", "a", "b", "l", "e">>, <<"v", "e", "g", "g", "i", "e">>,
          <<"v", "e", "g", "a">>
       >>],
      [key |-> <<"o", "n", "t", "b", "i", "j", "t">>,
       terms |-> <<
          <<"b", "r", "e", "a", "k", "f", "a", "s", "t">>
       >>],
      [key |-> <<"l", "u", "n", "c", "h">>,
       terms |-> <<
          <<"m", "i", "d", "d", "a", "g", "e", "t", "e", "n">>
       >>],
      [key |-> <<"a", "v", "o", "n", "d", "e", "t", "e", "n">>,
       terms |-> <<
          <<"d", "i", "n", "n", "e", "r">>
       >>],
      [key |-> <<"t", "o", "e", "t", "j", "e">>,
       terms |-> <<
          <<"d", "e", "s", "s", "e", "r", "t">>
       >>],
      [key |-> <<"d", "r", "a", "n", "k", "j", "e">>,
       terms |-> <<
          <<"d", "r", "i", "n", "k">>, <<"c", "o", "c", "k", "t", "a", "i", "l">>,
          <<"s", "m", "o", "o", "t", "h", "i", "e">>
       >>],
      [key |-> <<"g", "e", "z", "o", "n", "d">>,
       terms |-> <<
          <<"h", "e", "a", "l", "t", "h", "y">>, <<"l", "o", "w", "-", "c", "a", "r", "b">>,
          <<"s", "a", "l", "a", "d">>, <<"b", "o", "w", "l">>
       >>],
      [key |-> <<"s", "n", "e", "l">>,
       terms |-> <<
          <<"q", "u", "i", "c", "k">>, <<"f", "a", "s", "t">>,
          <<"1", "5", " ", "m", "i", "n", "s">>, <<"a", "i", "r", "f", "r", "y", "e", "r">>
       >>],
      [key |-> <<"a", "i", "r", "f", "r", "y", "e", "r">>,
       terms |-> <<
          <<"h", "e", "t", "e", "l", "u", "c", "h", "t">>
       >>],
      [key |-> <<"b", "b", "q">>,
       terms |-> <<
          <<"b", "a", "r", "b", "e", "c", "u", "e">>, <<"g", "r", "i", "l", "l", "e", "n">>,
          <<"b", "r", "a", "a", "i">>
       >>]
    >>

\* TRANSLATIONS[q], or no list when q is not a key.
Translation(q) ==
    LET hits == {i \in DOMAIN TRANSLATIONS : TRANSLATIONS[i].key = q}
    IN  IF hits = {} THEN <<>> ELSE TRANSLATIONS[CHOOSE i \in hits : TRUE].terms

\* A search by the query alone.
TermsWithoutSynonyms(q) == <<q>>

\* const terms = [q]; if (TRANSLATIONS[q]) terms.push(...TRANSLATIONS[q])
Terms(q) == <<q>> \o Translation(q)

\* [r.title, r.description, ...(r.tags || []), r.category || ''].join(' ').toLowerCase()
textToSearch(r) ==
    toLowerCase(join(<<r.title, r.description>>
                     \o (IF "tags" \in DOMAIN r THEN r.tags ELSE <<>>)
                     \o <<IF "category" \in DOMAIN r THEN r.category ELSE <<>>>>))

\* terms.some(term => textToSearch.includes(term))
matches(r, q) ==
    LET terms == Terms(q)
        text == textToSearch(r)
    IN  \E k \in DOMAIN terms : includes(text, terms[k])

\* The tags of the category filter:
\* (r.tags || (r.category ? categoryToTags(r.category) : [])).map(t => t.toLowerCase())
FilterTags(r) ==
    LET tags == IF "tags" \in DOMAIN r THEN r.tags
                ELSE IF "category" \in DOMAIN r /\ r.category # <<>>
                THEN categoryToTags(r.category)
                ELSE <<>>
    IN  [k \in 1..Len(tags) |-> toLowerCase(tags[k])]

\* The tag chips of the detail view.
DetailTags(recipe) ==
    IF "tags" \in DOMAIN recipe THEN recipe.tags
    ELSE IF "category" \in DOMAIN recipe /\ recipe.category # <<>>
    THEN categoryToTags(recipe.category)
    ELSE <<>>

\* The tag chips of a card of the grid: the first three.
GridTags(r) ==
    LET tags == IF "tags" \in DOMAIN r THEN r.tags
                ELSE IF "category" \in DOMAIN r /\ r.category # <<>>
                THEN categoryToTags(r.category)
                ELSE <<>>
    IN  SubSeq(tags, 1, IF Len(tags) < 3 THEN Len(tags) ELSE 3)

\* A filter that drops every recipe while the search input is empty.
KeepQueried(r, q, cat) ==
    /\ q # NoQuery
    /\ matches(r, toLowerCase(q))
    /\ cat # All => \E k \in DOMAIN FilterTags(r) : FilterTags(r)[k] = toLowerCase(cat)

\* The callback of savedRecipes.filter.
Keep(r, q, cat) ==
    /\ q # NoQuery => matches(r, toLowerCase(q))
    /\ cat # All => \E k \in DOMAIN FilterTags(r) : FilterTags(r)[k] = toLowerCase(cat)

\* A view that lists the matching recipes last first.
FilteredRecipesReversed(S, q, cat) ==
    LET kept == SelectSeq(S, LAMBDA r : Keep(r, q, cat))
    IN  [i \in 1..Len(kept) |-> kept[Len(kept) + 1 - i]]

FilteredRecipes(S, q, cat) == SelectSeq(S, LAMBDA r : Keep(r, q, cat))

filteredRecipes == FilteredRecipes(savedRecipes, searchQuery, selectedCategory)

\* What the user types in the search input.
Queries ==
    { NoQuery,
      <<"k", "i", "p">>,
      <<"K", "I", "P">>,
      <<"c", "h", "i", "c", "k", "e", "n">>,
      <<"a", "i", "r", "f", "r", "y", "e", "r">>,
      <<"h", "e", "t", "e", "l", "u", "c", "h", "t">>,
      <<"s", "n", "e", "l">>,
      <<"p", " ", "a">> }

\* The filter chips: All, the meal types and the dish types.
Chips == {All} \cup Range(MEAL_TYPES) \cup Range(DISH_TYPES)

\* onChange of the search input
setSearchQuery(q) ==
    /\ mounted
    /\ searchQuery' = q
    /\ UNCHANGED <<mounted, user, savedRecipes, error, userBlob, blob, login,
                   pendingSaves, pendingFetch, remote, selectedCategory, otherTab>>
    /\ Other

\* onClick of a filter chip
setSelectedCategory(cat) ==
    /\ mounted
    /\ selectedCategory' = cat
    /\ UNCHANGED <<mounted, user, savedRecipes, error, userBlob, blob, login,
                   pendingSaves, pendingFetch, remote, searchQuery, otherTab>>
    /\ Other

-----------------------------------------------------------------------------

Next ==
    \/ Mount
    \/ Unmount
    \/ \E o \in Outcomes : FetchRespond(o)
    \/ \E i \in Runs : LoginStart(i)
    \/ \E i \in Runs, o \in Outcomes : AuthRespond(i, o)
    \/ \E i \in Runs, o \in Outcomes : MigratePostRespond(i, o)
    \/ handleLogout
    \/ \E r \in Shown : saveRecipe(r)
    \/ \E k \in 1..MaxPending, o \in Outcomes : SaveRespond(k, o)
    \/ \E r \in Shown : handleDelete(r)
    \/ \E q \in Queries : setSearchQuery(q)
    \/ \E cat \in Chips : setSelectedCategory(cat)

Spec == Init /\ [][Next]_vars

\* One login at a time: the callback is not delivered again while a run is in
\* progress.
NextSeq ==
    \/ Mount
    \/ Unmount
    \/ \E o \in Outcomes : FetchRespond(o)
    \/ LoginStart(1)
    \/ \E o \in Outcomes : AuthRespond(1, o)
    \/ \E o \in Outcomes : MigratePostRespond(1, o)
    \/ handleLogout
    \/ \E r \in Shown : saveRecipe(r)
    \/ \E k \in 1..MaxPending, o \in Outcomes : SaveRespond(k, o)
    \/ \E r \in Shown : handleDelete(r)

SpecSeq == Init /\ [][NextSeq]_vars

\* The migration on its own: logins one at a time, and recipes saved only
\* while no session is present.
NextMigrate ==
    \/ Mount
    \/ \E o \in Outcomes : FetchRespond(o)
    \/ LoginStart(1)
    \/ \E o \in Outcomes : AuthRespond(1, o)
    \/ \E o \in Outcomes : MigratePostRespond(1, o)
    \/ handleLogout
    \/ \E r \in Shown : user = Null /\ saveRecipe(r)

SpecMigrate == Init /\ [][NextMigrate]_vars

\* The page before a mount on a device whose localStorage holds what an
\* earlier visit, or anything else writing the two keys, has left there.
InitStored ==
    /\ mounted = FALSE
    /\ user = Null
    /\ savedRecipes = <<>>
    /\ error = NoError
    /\ userBlob \in {Absent, Garbage, Stringify(UserData)}
    /\ blob \in {Absent, Garbage} \cup {Stringify(S) : S \in StoredCollections}
    /\ login = [i \in Runs |-> IdleRun]
    /\ pendingSaves = <<>>
    /\ pendingFetch = 0
    /\ remote = <<>>
    /\ searchQuery = NoQuery
    /\ selectedCategory = All
    /\ otherTab = ClosedTab
    /\ last = NoOp
    /\ last2 = NoOp

SpecStored == InitStored /\ [][NextSeq]_vars

\* Every remote call succeeds, one login at a time.
NextOk ==
    \/ Mount
    \/ Unmount
    \/ FetchRespond(Ok)
    \/ LoginStart(1)
    \/ AuthRespond(1, Ok)
    \/ MigratePostRespond(1, Ok)
    \/ handleLogout
    \/ \E r \in Shown : saveRecipe(r)
    \/ \E k \in 1..MaxPending : SaveRespond(k, Ok)
    \/ \E r \in Shown : handleDelete(r)

SpecOk == Init /\ [][NextOk]_vars

\* The login callback can be delivered while a run is in progress; the page is
\* not reloaded.
NextOverlap ==
    \/ Mount
    \/ \E o \in Outcomes : FetchRespond(o)
    \/ \E i \in Runs : LoginStart(i)
    \/ \E i \in Runs, o \in Outcomes : AuthRespond(i, o)
    \/ \E i \in Runs, o \in Outcomes : MigratePostRespond(i, o)
    \/ handleLogout
    \/ \E r \in Shown : saveRecipe(r)
    \/ \E k \in 1..MaxPending, o \in Outcomes : SaveRespond(k, o)

SpecOverlap == Init /\ [][NextOverlap]_vars

-----------------------------------------------------------------------------
(* Local mode: saveRecipe and handleDelete with no session, from every      *)
(* collection up to MaxLen that the page can hold.                          *)

Pool == Extracted \cup {ServerCopy(r, n) : r \in Extracted, n \in 1..MaxRemote}

HasId(r) == "id" \in DOMAIN r

\* Recipes without an id come from local saves, which keep titles unique;
\* recipes sharing a title are copies the server listed, each with its own id.
Holdable(S) ==
    \A i, j \in 1..Len(S) :
        i < j =>
            /\ S[i].title = S[j].title => HasId(S[i]) /\ HasId(S[j])
            /\ HasId(S[i]) /\ HasId(S[j]) => S[i].id # S[j].id

Collections ==
    {S \in UNION {[1..n -> Pool] : n \in 0..MaxLen} : Holdable(S)}

InitLocal ==
    /\ mounted = TRUE
    /\ user = Null
    /\ savedRecipes \in Collections
    /\ error = NoError
    /\ userBlob = Absent
    /\ blob \in {Absent, Stringify(savedRecipes)}
    /\ login = [i \in Runs |-> IdleRun]
    /\ pendingSaves = <<>>
    /\ pendingFetch = 0
    /\ remote = <<>>
    /\ searchQuery = NoQuery
    /\ selectedCategory = All
    /\ otherTab = ClosedTab
    /\ last = NoOp
    /\ last2 = NoOp

NextLocal ==
    \/ Mount
    \/ Unmount
    \/ \E r \in Shown : saveRecipe(r)
    \/ \E r \in Shown : handleDelete(r)

SpecLocal == InitLocal /\ [][NextLocal]_vars

-----------------------------------------------------------------------------
(* Two tabs on one localStorage. The second tab runs the same component; it  *)
(* is followed while no session is persisted, so that it is in local mode.   *)

\* A recipe an earlier visit has stored.
Kept == [title |-> "K", description |-> "k"]

\* The mount effect of the second tab, with no persisted session.
MountOther ==
    /\ ~otherTab.mounted
    /\ userBlob = Absent
    /\ otherTab' = [mounted |-> TRUE,
                    savedRecipes |-> IF blob # Absent /\ Parses(blob)
                                     THEN Parse(blob)
                                     ELSE otherTab.savedRecipes]
    /\ UNCHANGED <<mounted, user, savedRecipes, error, userBlob, blob, login,
                   pendingSaves, pendingFetch, remote, searchQuery, selectedCategory>>
    /\ Other

\* The second tab is closed.
UnmountOther ==
    /\ otherTab.mounted
    /\ otherTab' = ClosedTab
    /\ UNCHANGED <<mounted, user, savedRecipes, error, userBlob, blob, login,
                   pendingSaves, pendingFetch, remote, searchQuery, selectedCategory>>
    /\ Other

\* A save that first reads the collection the blob holds and adds to that.
saveRecipeOtherMerging(recipeToSave) ==
    /\ otherTab.mounted
    /\ Parses(blob)
    /\ LET stored == Parse(blob)
           newSaved == IF isAlreadySaved(stored, recipeToSave)
                       THEN FilterTitle(stored, recipeToSave.title)
                       ELSE Prepend(recipeToSave, stored)
       IN  /\ otherTab' = [otherTab EXCEPT !.savedRecipes = newSaved]
           /\ blob' = Stringify(newSaved)
    /\ UNCHANGED <<mounted, user, savedRecipes, error, userBlob, login,
                   pendingSaves, pendingFetch, remote, searchQuery, selectedCategory>>
    /\ last' = [op |-> "saveRecipeOther", r |-> recipeToSave,
                saved |-> otherTab.savedRecipes]
    /\ last2' = IF last.op = "saveRecipe" THEN last ELSE NoOp

\* saveRecipe(recipeToSave) in the second tab, which has no session: the
\* branches of local mode.
saveRecipeOther(recipeToSave) ==
    /\ otherTab.mounted
    /\ LET newSaved == IF isAlreadySaved(otherTab.savedRecipes, recipeToSave)
                       THEN FilterTitle(otherTab.savedRecipes, recipeToSave.title)
                       ELSE Prepend(recipeToSave, otherTab.savedRecipes)
       IN  /\ otherTab' = [otherTab EXCEPT !.savedRecipes = newSaved]
           /\ blob' = Stringify(newSaved)
    /\ UNCHANGED <<mounted, user, savedRecipes, error, userBlob, login,
                   pendingSaves, pendingFetch, remote, searchQuery, selectedCategory>>
    /\ last' = [op |-> "saveRecipeOther", r |-> recipeToSave,
                saved |-> otherTab.savedRecipes]
    /\ last2' = IF last.op = "saveRecipe" THEN last ELSE NoOp

ShownOther == Extracted \cup Range(otherTab.savedRecipes)

InitTabs ==
    /\ mounted = FALSE
    /\ user = Null
    /\ savedRecipes = <<>>
    /\ error = NoError
    /\ userBlob = Absent
    /\ blob \in {Absent, Stringify(<<>>), Stringify(<<Kept>>)}
    /\ login = [i \in Runs |-> IdleRun]
    /\ pendingSaves = <<>>
    /\ pendingFetch = 0
    /\ remote = <<>>
    /\ searchQuery = NoQuery
    /\ selectedCategory = All
    /\ otherTab = ClosedTab
    /\ last = NoOp
    /\ last2 = NoOp

NextTabs ==
    \/ Mount
    \/ Unmount
    \/ MountOther
    \/ UnmountOther
    \/ \E r \in Shown : saveRecipe(r)
    \/ \E r \in ShownOther : saveRecipeOther(r)

SpecTabs == InitTabs /\ [][NextTabs]_vars

-----------------------------------------------------------------------------
(* The cookbook view over every collection up to MaxShelf of recipes with    *)
(* and without tags and legacy categories.                                   *)

\* tags in mixed case
ChickenThighs ==
    [title |-> <<"G", "r", "i", "l", "l", "e", "d", " ", "C", "h", "i", "c", "k", "e", "n", " ", "T", "h", "i", "g", "h", "s">>,
     description |-> <<"B", "B", "Q">>,
     tags |-> <<<<"d", "i", "n", "n", "e", "r">>, <<"C", "h", "i", "c", "k", "e", "n">>>>]

\* a meal tag and a dish tag
SoupA ==
    [title |-> <<"S", "o", "u", "p", " ", "A">>,
     description |-> <<>>,
     tags |-> <<<<"D", "i", "n", "n", "e", "r">>, <<"S", "o", "u", "p">>>>]

\* a dish tag only
SoupB ==
    [title |-> <<"S", "o", "u", "p", " ", "B">>,
     description |-> <<>>,
     tags |-> <<<<"S", "o", "u", "p">>>>]

\* two meal tags and two dish tags
PizzaPasta ==
    [title |-> <<"P", "i", "z", "z", "a", " ", "P", "a", "s", "t", "a">>,
     description |-> <<>>,
     tags |-> <<<<"L", "u", "n", "c", "h">>, <<"D", "i", "n", "n", "e", "r">>, <<"P", "i", "z", "z", "a">>, <<"P", "a", "s", "t", "a">>>>]

\* a legacy recipe: a category and no tags
KipKerrie ==
    [title |-> <<"K", "i", "p", " ", "K", "e", "r", "r", "i", "e">>,
     description |-> <<"s", "n", "e", "l">>,
     category |-> <<"D", "i", "n", "n", "e", "r">>]

\* an empty tags array and a category
Toast ==
    [title |-> <<"T", "o", "a", "s", "t">>,
     description |-> <<"A", "i", "r", "f", "r", "y", "e", "r">>,
     tags |-> <<>>,
     category |-> <<"D", "i", "n", "n", "e", "r">>]

\* neither tags nor category
Friet ==
    [title |-> <<"H", "e", "t", "e", "l", "u", "c", "h", "t", " ", "F", "r", "i", "e", "t">>,
     description |-> <<>>]

Cookbook == {ChickenThighs, SoupA, SoupB, PizzaPasta, KipKerrie, Toast, Friet}

Shelves == UNION {[1..n -> Cookbook] : n \in 0..MaxShelf}

InitSearch ==
    /\ mounted = TRUE
    /\ user = Null
    /\ savedRecipes \in Shelves
    /\ error = NoError
    /\ userBlob = Absent
    /\ blob = Stringify(savedRecipes)
    /\ login = [i \in Runs |-> IdleRun]
    /\ pendingSaves = <<>>
    /\ pendingFetch = 0
    /\ remote = <<>>
    /\ searchQuery = NoQuery
    /\ selectedCategory = All
    /\ otherTab = ClosedTab
    /\ last = NoOp
    /\ last2 = NoOp

NextSearch ==
    \/ \E q \in Queries : setSearchQuery(q)
    \/ \E cat \in Chips : setSelectedCategory(cat)

SpecSearch == InitSearch /\ [][NextSearch]_vars

-----------------------------------------------------------------------------
(* Remote mode: the page is opened with a persisted session, on an account   *)
(* whose remote collection earlier sessions have filled.                     *)

RemoteStores ==
    {<<>>} \cup {<<ServerCopy(r, 1)>> : r \in Extracted}

InitRemote ==
    /\ mounted = FALSE
    /\ user = Null
    /\ savedRecipes = <<>>
    /\ error = NoError
    /\ userBlob = Stringify(UserData)
    /\ blob = Absent
    /\ login = [i \in Runs |-> IdleRun]
    /\ pendingSaves = <<>>
    /\ pendingFetch = 0
    /\ remote \in RemoteStores
    /\ searchQuery = NoQuery
    /\ selectedCategory = All
    /\ otherTab = ClosedTab
    /\ last = NoOp
    /\ last2 = NoOp

NextRemote ==
    \/ Mount
    \/ Unmount
    \/ \E o \in Outcomes : FetchRespond(o)
    \/ \E r \in Shown : saveRecipe(r)
    \/ \E k \in 1..MaxPending, o \in Outcomes : SaveRespond(k, o)

SpecRemote == InitRemote /\ [][NextRemote]_vars

\* Remote mode in which every call succeeds and saveRecipe only adds: the save
\* button is pressed on recipes the collection does not hold. A logout ends the
\* session.
NextRemoteOk ==
    \/ Mount
    \/ Unmount
    \/ FetchRespond(Ok)
    \/ handleLogout
    \/ \E r \in Shown : ~isAlreadySaved(savedRecipes, r) /\ saveRecipe(r)
    \/ \E k \in 1..MaxPending : SaveRespond(k, Ok)

SpecRemoteOk == InitRemote /\ [][NextRemoteOk]_vars

-----------------------------------------------------------------------------
(* Vocabulary of the properties *)

TitleCount(S, t) == Cardinality({i \in 1..Len(S) : S[i].title = t})

UniqueTitles(S) == \A i, j \in 1..Len(S) : S[i].title = S[j].title => i = j

\* The elements of S whose title is not t, in the order of S.
WithoutTitle(S, t) == SelectSeq(S, LAMBDA x : x.title # t)

LocalEmpty(b) == b = Absent \/ (Parses(b) /\ Parse(b) = <<>>)

\* The step is one of run i in which its migration loop ends (by its last create
\* call or by the catch).
MigrationEnds(i) ==
    /\ login[i].pc = "posting"
    /\ login'[i].pc = "idle"
    /\ mounted'

\* The step is one of run i in which its migration completes: the local
\* collection is cleared and the remote listing requested.
MigrationCompletes(i) ==
    /\ MigrationEnds(i)
    /\ error' = error
    /\ pendingFetch' = pendingFetch + 1

\* The step is the answer to a create call of run i's migration that created a
\* recipe.
MigrationCreates(i) ==
    /\ login[i].pc = "posting"
    /\ login'[i] # login[i]
    /\ Len(remote') = Len(remote) + 1

\* The step is one of run i in which the run ends.
RunEnds(i) ==
    /\ login[i].pc # "idle"
    /\ login'[i].pc = "idle"
    /\ mounted'

-----------------------------------------------------------------------------
(* C1: promotion neither loses nor duplicates. When every remote call        *)
(* succeeds, a create call of the migration never creates a recipe whose     *)
(* title the remote collection already holds, and when a migration completes *)
(* every recipe of the local collection and of the run is in the remote      *)
(* collection exactly once.                                                  *)
C1_PromotionExact ==
    [][\A i \in Runs :
          /\ MigrationCreates(i) =>
                 TitleCount(remote, login[i].recipes[login[i].idx].title) = 0
          /\ MigrationCompletes(i) =>
                 /\ \A k \in 1..Len(login[i].recipes) :
                        TitleCount(remote', login[i].recipes[k].title) = 1
                 /\ Parses(blob) =>
                        \A k \in 1..Len(Parse(blob)) :
                           TitleCount(remote', Parse(blob)[k].title) = 1]_vars

(* C2: once the migration of a run has run, whatever create calls failed,    *)
(* the local collection is empty.                                            *)
C2_LocalEmptyAfterMigration ==
    [][\A i \in Runs : MigrationEnds(i) => LocalEmpty(blob')]_vars

(* C3: the migration does not short-circuit: when the migration loop of a    *)
(* run ends, a create call has been issued for every recipe it read from the *)
(* local collection.                                                         *)
C3_NoShortCircuit ==
    [][\A i \in Runs :
          MigrationEnds(i) => login[i].idx = Len(login[i].recipes)]_vars

(* C4: the in-memory collection and the local collection hold at most one    *)
(* recipe per title.                                                         *)
C4_TitleUnique ==
    /\ UniqueTitles(savedRecipes)
    /\ Parses(blob) => UniqueTitles(Parse(blob))

(* C5: with no session, saveRecipe(r) on the collection C yields C without   *)
(* the recipes titled r.title when C holds one, and r followed by C          *)
(* otherwise; the local blob holds exactly the resulting collection.         *)
C5_ToggleSaveLocal ==
    (last.op = "saveRecipe" /\ user = Null) =>
        /\ savedRecipes =
              IF TitleCount(last.saved, last.r.title) > 0
              THEN WithoutTitle(last.saved, last.r.title)
              ELSE <<last.r>> \o last.saved
        /\ blob = Stringify(savedRecipes)

\* saveRecipe has removed a recipe from a local collection and kept another.
C5_Witness ==
    /\ last.op = "saveRecipe"
    /\ user = Null
    /\ TitleCount(last.saved, last.r.title) > 0
    /\ savedRecipes # <<>>
    /\ Len(savedRecipes) < Len(last.saved)

\* saveRecipe(r) has run twice in a row with no session.
SavedTwiceLocal ==
    /\ last.op = "saveRecipe"
    /\ last2.op = "saveRecipe"
    /\ user = Null

(* C6 as stated: with no session, saveRecipe(r) twice in a row restores the  *)
(* collection C it started from, whether or not C holds a recipe titled      *)
(* r.title, and the local blob holds C again.                                *)
C6_ToggleTwiceRestores ==
    SavedTwiceLocal =>
        /\ savedRecipes = last2.saved
        /\ blob = Stringify(last2.saved)

(* C6 as amended: with no session, saveRecipe(r) twice in a row restores C   *)
(* and the blob when C holds no recipe titled r.title; when C holds one, the *)
(* result is r followed by C without the recipes of that title.              *)
C6_ToggleTwiceAmended ==
    SavedTwiceLocal =>
        /\ savedRecipes =
              IF TitleCount(last2.saved, last.r.title) = 0
              THEN last2.saved
              ELSE <<last.r>> \o WithoutTitle(last2.saved, last.r.title)
        /\ blob = Stringify(savedRecipes)

\* A recipe was saved and unsaved again on a collection holding another one.
C6_Witness ==
    /\ SavedTwiceLocal
    /\ TitleCount(last2.saved, last.r.title) = 0
    /\ last2.saved # <<>>
    /\ savedRecipes = last2.saved

(* C7: the session alone routes: with a session, saveRecipe and handleDelete *)
(* leave the local blob alone; with no session they issue no remote call.    *)
C7_SessionRoutes ==
    [][last'.op \in {"saveRecipe", "handleDelete"} =>
          /\ user # Null => blob' = blob
          /\ user = Null => pendingSaves' = pendingSaves]_vars

(* C8: a recipe of the local collection is sent in one create call: no two   *)
(* runs of handleGoogleLogin have each sent a create call for the same       *)
(* recipe of the local collection.                                           *)
C8_MigratesOnce ==
    \A i, j \in Runs :
        (i # j /\ login[i].pc = "posting" /\ login[j].pc = "posting") =>
            \A a \in 1..login[i].idx, b \in 1..login[j].idx :
                login[i].recipes[a] # login[j].recipes[b]

(* C9: when a run of handleGoogleLogin ends with a login error reported, no  *)
(* session is present in memory nor under chefSocial_user.                   *)
C9_FailedLoginNoSession ==
    [][\A i \in Runs :
          (RunEnds(i) /\ error' \in {LoginFailed, LoginError}) =>
              (user' = Null /\ ~Parses(userBlob'))]_vars

(* C10: a local blob that does not parse is treated as an empty collection,  *)
(* on mount and in the migration, and no error is shown.                     *)
C10_MalformedBlobAsEmpty ==
    [][(blob # Absent /\ ~Parses(blob)) =>
          /\ (~mounted /\ mounted' /\ userBlob = Absent) =>
                 (savedRecipes' = <<>> /\ error' = NoError)
          /\ \A i \in Runs :
                 (login[i].pc = "auth" /\ login'[i].pc # "auth" /\ user' # Null) =>
                     /\ error' = NoError
                     /\ LocalEmpty(blob')
                     /\ pendingFetch' = pendingFetch + 1]_vars

(* C11: when a mount establishes no session (no persisted session, or one    *)
(* that does not parse), the in-memory collection is loaded from the local   *)
(* blob: it is the collection the blob holds.                                *)
C11_LocalActiveOnMount ==
    [][(~mounted /\ mounted' /\ user' = Null /\ Parses(blob)) =>
          savedRecipes' = Parse(blob)]_vars

(* C12: after handleLogout the session is absent from memory and from        *)
(* chefSocial_user, and the in-memory collection is the content of the local *)
(* blob (empty when the blob is absent).                                     *)
C12_LogoutRevertsToLocal ==
    [][(mounted' /\ user # Null /\ user' = Null) =>
          /\ userBlob' = Absent
          /\ savedRecipes' = IF Parses(blob') THEN Parse(blob') ELSE <<>>]_vars

-----------------------------------------------------------------------------
(* Vocabulary of the cookbook view's properties *)

\* term occurs in text: after some prefix of text come the characters of term.
IsSubstring(term, text) ==
    \E p \in 0..Len(text) :
        \A k \in 1..Len(term) : p + k <= Len(text) /\ text[p + k] = term[k]

\* The terms the synonym table relates to the key q, in one hop.
Synonyms(q) ==
    UNION {Range(TRANSLATIONS[i].terms) :
               i \in {n \in DOMAIN TRANSLATIONS : TRANSLATIONS[n].key = q}}

\* The tags of a recipe, absent tags being no tags.
TagList(r) == IF "tags" \in DOMAIN r THEN r.tags ELSE <<>>

\* The lowercased text of a recipe: title, description, tags and legacy
\* category, each followed by a space but the last.
SearchText(r) ==
    LET Flat[i \in 0..Len(TagList(r))] ==
            IF i = 0 THEN <<>> ELSE Flat[i - 1] \o TagList(r)[i] \o <<" ">>
    IN  toLowerCase(r.title \o <<" ">> \o r.description \o <<" ">> \o Flat[Len(TagList(r))]
                    \o (IF "category" \in DOMAIN r THEN r.category ELSE <<>>))

\* r is found by the query q: q in lowercase, or one of its synonyms, occurs
\* in the text of r.
Found(r, q) ==
    LET text == SearchText(r)
    IN  \E term \in {toLowerCase(q)} \cup Synonyms(toLowerCase(q)) :
            IsSubstring(term, text)

\* The resolved tags of a recipe: its tags when it has some, else its legacy
\* category as the one tag, else none.
ResolvedTags(r) ==
    IF "tags" \in DOMAIN r /\ r.tags # <<>> THEN r.tags
    ELSE IF "category" \in DOMAIN r THEN <<r.category>>
    ELSE <<>>

\* A resolved tag of r equals the name case-insensitively.
Tagged(r, name) ==
    \E k \in DOMAIN ResolvedTags(r) : toLowerCase(ResolvedTags(r)[k]) = toLowerCase(name)

OtherDish == <<"O", "t", "h", "e", "r">>

\* The dish group of r: the first entry of DISH_TYPES that one of its tags
\* equals, or Other.
DishOf(r) ==
    LET hits == {d \in DOMAIN DISH_TYPES : Tagged(r, DISH_TYPES[d])}
    IN  IF hits = {} THEN OtherDish
        ELSE DISH_TYPES[CHOOSE d \in hits : \A e \in hits : d <= e]

\* The elements of b at the positions of pick, in the order of b.
Picked(b, pick) ==
    LET F[i \in 0..Len(b)] ==
            IF i = 0 THEN <<>>
            ELSE IF i \in pick THEN Append(F[i - 1], b[i]) ELSE F[i - 1]
    IN  F[Len(b)]

\* a is b with some of its elements left out.
IsSubsequence(a, b) == \E pick \in SUBSET (1..Len(b)) : a = Picked(b, pick)

\* The view with the search input empty and the chip cat selected.
Group(cat) == FilteredRecipes(savedRecipes, NoQuery, cat)

C14_EmptyQueryIdentity ==
    (searchQuery = NoQuery /\ selectedCategory = All) => filteredRecipes = savedRecipes

\* The view of a collection of two recipes with the empty query.
C14_Witness ==
    /\ searchQuery = NoQuery
    /\ selectedCategory = All
    /\ Len(savedRecipes) = 2
    /\ savedRecipes[1] # savedRecipes[2]
    /\ Len(filteredRecipes) = 2

C16_TagResolution ==
    \A i \in 1..Len(savedRecipes) :
        LET r == savedRecipes[i]
            resolved == ResolvedTags(r)
        IN  /\ FilterTags(r) = [k \in 1..Len(resolved) |-> toLowerCase(resolved[k])]
            /\ DetailTags(r) = resolved
            /\ GridTags(r) = SubSeq(resolved, 1, IF Len(resolved) < 3 THEN Len(resolved) ELSE 3)
            /\ (selectedCategory # All /\ searchQuery = NoQuery) =>
                   (r \in Range(filteredRecipes) <=> Tagged(r, selectedCategory))

(* C17: for every meal name of MEAL_TYPES the recipes listed under it are    *)
(* those with a resolved tag equal to it case-insensitively, in collection   *)
(* order; for [Soup A {Dinner, Soup}, Soup B {Soup}] 'Dinner' lists          *)
(* [Soup A] and 'Soup' lists [Soup A, Soup B].                               *)
C17_MealMembership ==
    searchQuery = NoQuery =>
        /\ selectedCategory \in Range(MEAL_TYPES) =>
               filteredRecipes =
                   SelectSeq(savedRecipes, LAMBDA r : Tagged(r, selectedCategory))
        /\ savedRecipes = <<SoupA, SoupB>> =>
               /\ selectedCategory = <<"D", "i", "n", "n", "e", "r">> =>
                      filteredRecipes = <<SoupA>>
               /\ selectedCategory = <<"S", "o", "u", "p">> =>
                      filteredRecipes = <<SoupA, SoupB>>

(* C18: every recipe is under exactly one dish group, the first entry of     *)
(* DISH_TYPES that equals one of its tags case-insensitively, or 'Other'; a  *)
(* recipe tagged 'Pizza' and 'Pasta' is not listed under 'Pasta'.            *)
C18_DishExclusive ==
    searchQuery = NoQuery =>
        /\ selectedCategory \in Range(DISH_TYPES) =>
               filteredRecipes =
                   SelectSeq(savedRecipes, LAMBDA r : DishOf(r) = selectedCategory)
        /\ \A i \in 1..Len(savedRecipes) :
               Cardinality({d \in Range(DISH_TYPES) \cup {OtherDish} :
                               savedRecipes[i] \in Range(Group(d))}) = 1
        /\ selectedCategory = <<"P", "a", "s", "t", "a">> =>
               PizzaPasta \notin Range(filteredRecipes)

\* Two tabs holding the same collection have each added a recipe to it, one
\* after the other, and the two recipes differ.
TwoTabsSaved ==
    /\ user = Null
    /\ {last.op, last2.op} = {"saveRecipe", "saveRecipeOther"}
    /\ last.saved = last2.saved
    /\ last.r.title # last2.r.title
    /\ TitleCount(last.saved, last.r.title) = 0
    /\ TitleCount(last.saved, last2.r.title) = 0

(* C19: when two tabs have loaded the same local collection and each saves a *)
(* different recipe in local mode, the blob is the whole collection of the   *)
(* tab that wrote last and does not hold the other tab's recipe.             *)
C19_LastWriteWins ==
    TwoTabsSaved =>
        /\ blob = Stringify(<<last.r>> \o last.saved)
        /\ TitleCount(Parse(blob), last2.r.title) = 0

\* The two tabs had loaded a stored recipe and each has saved another one.
C19_Witness ==
    /\ TwoTabsSaved
    /\ last.saved = <<Kept>>
    /\ last.op = "saveRecipeOther"

-----------------------------------------------------------------------------
(* C20: within a migration run the create calls are issued one at a time in  *)
(* the order of the local collection, each when the previous one has         *)
(* completed; the local collection is cleared only when the last create call *)
(* has completed, and the remote listing is requested only once it is        *)
(* cleared.                                                                  *)
C20_MigrationOrdered ==
    [][\A i \in Runs :
          (mounted' /\ login'[i] # login[i]) =>
              /\ (login[i].pc = "auth" /\ login'[i].pc = "posting") =>
                     /\ login'[i].recipes = Parse(blob)
                     /\ login'[i].idx = 1
              /\ (login[i].pc = "posting" /\ login'[i].pc = "posting") =>
                     /\ login'[i].recipes = login[i].recipes
                     /\ login'[i].idx = login[i].idx + 1
              /\ Len(remote') > Len(remote) =>
                     /\ login[i].pc = "posting"
                     /\ remote' = <<ServerCreate(login[i].recipes[login[i].idx],
                                                 remote)>> \o remote
              /\ (blob # Absent /\ blob' = Absent) =>
                     \/ login[i].pc = "posting" /\ login[i].idx = Len(login[i].recipes)
                     \/ login[i].pc = "auth" /\ Parses(blob) /\ Parse(blob) = <<>>
              /\ pendingFetch' > pendingFetch =>
                     /\ blob' = Absent
                     /\ login'[i].pc = "idle"]_vars

\* A migration of two recipes has completed: the remote collection holds their
\* copies, created in the order of the local collection, the local blob is
\* cleared and the listing is requested.
C20_Witness ==
    /\ user # Null
    /\ login[1].pc = "idle"
    /\ blob = Absent
    /\ pendingFetch = 1
    /\ Len(savedRecipes) = 2
    /\ Len(remote) = 2
    /\ remote[2] = ServerCopy(savedRecipes[1], 1)
    /\ remote[1] = ServerCopy(savedRecipes[2], 2)

-----------------------------------------------------------------------------
(* C21: with a session and no recipe of the in-memory collection titled as   *)
(* r, saveRecipe(r) issues exactly one create call and changes nothing else; *)
(* when the call succeeds, the recipe the server returned, which carries the *)
(* id the server assigned and is not r, is prepended to the collection the   *)
(* call started from.                                                        *)
C21_RemoteSave ==
    [][/\ (last'.op = "saveRecipe" /\ user # Null
              /\ TitleCount(savedRecipes, last'.r.title) = 0) =>
           /\ pendingSaves' = Append(pendingSaves,
                                     [r |-> last'.r, closure |-> savedRecipes])
           /\ UNCHANGED <<savedRecipes, remote, blob>>
       /\ (last'.op = "SaveRespond" /\ last'.outcome = Ok) =>
           /\ Len(remote') = Len(remote) + 1
           /\ savedRecipes' = <<remote'[1]>> \o last'.saved
           /\ HasId(savedRecipes'[1])
           /\ savedRecipes'[1] # last'.r
           /\ savedRecipes'[1].title = last'.r.title]_vars

\* A remote save has succeeded on a collection that held another recipe.
C21_Witness ==
    /\ last.op = "SaveRespond"
    /\ last.outcome = Ok
    /\ user # Null
    /\ Len(savedRecipes) = 2
    /\ HasId(savedRecipes[1])

(* C22: when the create call of a saveRecipe fails, by an error response or  *)
(* a thrown error, the in-memory collection, the local blob, the session and *)
(* the error shown are left as they were.                                    *)
C22_FailedSaveSilent ==
    [][(last'.op = "SaveRespond" /\ last'.outcome # Ok) =>
          UNCHANGED <<savedRecipes, blob, user, userBlob, error, remote>>]_vars

\* A create call has thrown while the collection held a recipe.
C22_Witness ==
    /\ last.op = "SaveRespond"
    /\ last.outcome = Throw
    /\ user # Null
    /\ savedRecipes # <<>>

(* C23: when the listing call of fetchCloudRecipes fails, the in-memory      *)
(* collection keeps its content, no error is shown and no other listing is   *)
(* requested; after a login it still shows the former local recipes.         *)
C23_FailedListingStale ==
    [][(last'.op = "FetchRespond" /\ last'.outcome # Ok) =>
          /\ UNCHANGED <<savedRecipes, error, user, blob>>
          /\ pendingFetch' = pendingFetch - 1]_vars

\* After a login that migrated a recipe the listing has failed: the collection
\* still shows the local recipe, which has no id.
C23_Witness ==
    /\ last.op = "FetchRespond"
    /\ last.outcome # Ok
    /\ user # Null
    /\ blob = Absent
    /\ remote # <<>>
    /\ savedRecipes # <<>>
    /\ ~HasId(savedRecipes[1])

(* C24: with a session, saveRecipe(r) followed, once its create call has     *)
(* succeeded, by saveRecipe(r) restores the in-memory collection; the second *)
(* call issues no remote call, the remote collection still holds the recipe  *)
(* the first one created, and a listing that succeeds installs the remote    *)
(* collection, of which nothing is ever removed.                             *)
C24_RemoteRoundTrip ==
    [][/\ (last'.op = "saveRecipe" /\ last2'.op = "SaveRespond"
              /\ last2'.outcome = Ok /\ user # Null) =>
           /\ savedRecipes' = last2'.saved
           /\ UNCHANGED <<pendingSaves, pendingFetch, remote>>
           /\ \E i \in 1..Len(remote') :
                  remote'[i].title = last'.r.title /\ HasId(remote'[i])
       /\ (last'.op = "FetchRespond" /\ last'.outcome = Ok) => savedRecipes' = remote
       /\ \A i \in 1..Len(remote) : \E j \in 1..Len(remote') : remote'[j] = remote[i]]_vars

\* A recipe was saved remotely and unsaved again on a collection that held
\* another recipe.
C24_Witness ==
    /\ last.op = "saveRecipe"
    /\ last2.op = "SaveRespond"
    /\ last2.outcome = Ok
    /\ user # Null
    /\ savedRecipes # <<>>
    /\ savedRecipes = last2.saved
    /\ TitleCount(remote, last.r.title) = 1

\* The number of occurrences of the recipe x in the collection c.
Occurrences(c, x) ==
    Cardinality({i \in 1..Len(c) : c[i] = x})

(* C25: with a session, once every saveRecipe and every fetchCloudRecipes    *)
(* that overlapped has completed, all of their calls having succeeded, the   *)
(* in-memory collection holds every recipe of the remote collection exactly  *)
(* once and the remote collection holds no title twice.                      *)
C25_OverlapConsistent ==
    (user # Null /\ pendingSaves = <<>> /\ pendingFetch = 0) =>
        /\ \A i \in 1..Len(remote) : Occurrences(savedRecipes, remote[i]) = 1
        /\ UniqueTitles(remote)

(* C26: whenever a session is present and no migration run is in progress,   *)
(* the local blob is absent or holds the empty collection.                   *)
C26_LocalClearedWhileAuthenticated ==
    (user # Null /\ \A i \in Runs : login[i] = IdleRun) => LocalEmpty(blob)

====
